---- MODULE Spec2Model ----
(***************************************************************************)
(* Model of the graph utilities of the causal discovery notebook:          *)
(*   make_graph(adjacency_matrix, labels)  builds a graphviz.Digraph       *)
(*   graph.source                          graphviz renders it as text     *)
(*   str_to_dot(string)                    normalises the rendered text    *)
(*                                                                         *)
(* Texts are sequences of one-character strings.  Matrix cells are         *)
(* decimals with three fractional digits, held as integers in thousandths  *)
(* (600 is 0.6, -10 is -0.01), so the threshold 0.01 is the integer 10.    *)
(* Python indices are 0-based; a Python index i is position i + 1 here.    *)
(***************************************************************************)
EXTENDS Integers, Sequences, FiniteSets, TLC

VARIABLES adjacency_matrix, labels, origin, pc, d, err, string, graph_dot, passes,
          later, graphs, data, method, calls,
          event, job, step, outcomes, ran, comments, inbox

\* the state of the graph utilities and the state of an effect-estimation loop
utilvars == <<adjacency_matrix, labels, d, string, passes, later>>

loopvars == <<graphs, data, method, calls>>

\* the state of a run of the on-demand workflow
wfvars == <<event, job, step, outcomes, ran, comments, inbox>>

vars == <<adjacency_matrix, labels, origin, pc, d, err, string, graph_dot, passes,
          later, graphs, data, method, calls,
          event, job, step, outcomes, ran, comments, inbox>>

(* ------------------------------ bounds -------------------------------- *)

\* largest number of rows and of columns of a matrix
MaxN == 2

\* largest number of cells of a matrix that differ from 0
MaxNonZero == 2

\* largest length of a text handed to str_to_dot directly by a caller
MaxLen == 4

(* ------------------------------ inputs -------------------------------- *)

\* nonzero cell values, in thousandths: -0.02, -0.01, 0.01, 0.5, 0.6
CoefPool == {-20, -10, 10, 500, 600}

\* The label lists a caller passes are the beginnings of two lists of unique
\* names: identifiers, and names that graphviz has to quote (as the Sachs
\* column 'p44/42'), one of them holding a tab.
PlainLabels == << <<"A">>, <<"B">>, <<"C">>, <<"D">> >>

QuotedLabels == << <<"p", "/", "4">>, <<"a", "\t", "b">>, <<"B">>, <<"A">> >>

\* characters of the texts a caller hands to str_to_dot directly
TextAlphabet == {"a", ";", " ", "\n", "\t"}

Range(s) == {s[k] : k \in 1..Len(s)}

Min(a, b) == IF a < b THEN a ELSE b

Max(a, b) == IF a > b THEN a ELSE b

Abs(x) == IF x < 0 THEN -x ELSE x

\* the matrices of shape r x c with at most MaxNonZero nonzero cells
Matrices(r, c) ==
    UNION { { [i \in 1..r |-> [j \in 1..c |-> IF <<i, j>> \in S THEN f[<<i, j>>] ELSE 0]] :
                f \in [S -> CoefPool] } :
            S \in { T \in SUBSET ((1..r) \X (1..c)) : Cardinality(T) <= MaxNonZero } }

\* the shapes a caller can pass; a matrix without rows has no columns either
Shapes == { s \in (0..MaxN) \X (0..MaxN) : s[1] = 0 => s[2] = 0 }

\* the labels argument: absent (None), or a list of unique labels
NoLabels == [present |-> FALSE, val |-> <<>>]

\* the adjacency matrix another discovery method returned
OtherMatrix == << <<0, 600>>, <<0, 0>> >>

LabelLists ==
    UNION { { SubSeq(l, 1, n) : n \in 0..Min(MaxN, Len(l)) } :
              l \in {PlainLabels, QuotedLabels} }

LabelArgs == {NoLabels} \cup { [present |-> TRUE, val |-> l] : l \in LabelLists }

\* texts of length n over the text alphabet
Texts == UNION { [1..n -> TextAlphabet] : n \in 0..MaxLen }

(* --------------------------- text helpers ----------------------------- *)

DigitChar(k) == <<"0", "1", "2", "3", "4", "5", "6", "7", "8", "9">>[k + 1]

RECURSIVE Digits(_)
\* decimal digits of a natural number, as Python's str(int)
Digits(n) == IF n < 10 THEN <<DigitChar(n)>>
             ELSE Digits(n \div 10) \o <<DigitChar(n % 10)>>

\* the fractional digits of f thousandths without trailing zeros, at least one
Frac(f) ==
    IF f % 10 # 0
    THEN <<DigitChar(f \div 100), DigitChar((f \div 10) % 10), DigitChar(f % 10)>>
    ELSE IF f % 100 # 0
    THEN <<DigitChar(f \div 100), DigitChar((f \div 10) % 10)>>
    ELSE <<DigitChar(f \div 100)>>

\* str(coef) of a float: sign, integer part, point, shortest fractional part
Str(coef) ==
    (IF coef < 0 THEN <<"-">> ELSE <<>>)
        \o Digits(Abs(coef) \div 1000) \o <<".">> \o Frac(Abs(coef) % 1000)

RECURSIVE Concat(_)
\* ''.join(lines)
Concat(lines) == IF lines = <<>> THEN <<>> ELSE Head(lines) \o Concat(Tail(lines))

(* ----------------------------- make_graph ------------------------------ *)

\* the threshold 0.01, in thousandths
Threshold == 10

\* len(adjacency_matrix): the number of rows
Rows(m) == Len(m)

\* the number of columns
Cols(m) == IF Len(m) = 0 THEN 0 ELSE Len(m[1])

\* Mask with the comparison not strict
MaskNotStrict(m) ==
    [i \in 1..Rows(m) |-> [j \in 1..Cols(m) |-> Abs(m[i][j]) >= Threshold]]

\* idx = np.abs(adjacency_matrix) > 0.01, a boolean mask of the same shape
Mask(m) == [i \in 1..Rows(m) |-> [j \in 1..Cols(m) |-> Abs(m[i][j]) > Threshold]]

\* Positions in column-major order
PositionsColumnMajor(m) ==
    [k \in 1..(Rows(m) * Cols(m)) |-> <<(k - 1) % Rows(m), (k - 1) \div Rows(m)>>]

\* the 0-based (row, column) positions of a matrix in row-major order
Positions(m) ==
    [k \in 1..(Rows(m) * Cols(m)) |-> <<(k - 1) \div Cols(m), (k - 1) % Cols(m)>>]

\* the positions the mask selects, in row-major order
Selected(m, idx) == SelectSeq(Positions(m), LAMBDA p : idx[p[1] + 1][p[2] + 1])

\* dirs = np.where(idx): the array of row indices and the array of column
\* indices of the selected cells
Where(m, idx) ==
    LET sel == Selected(m, idx)
    IN  << [k \in 1..Len(sel) |-> sel[k][1]], [k \in 1..Len(sel) |-> sel[k][2]] >>

\* adjacency_matrix[idx]: the values of the selected cells
Masked(m, idx) ==
    LET sel == Selected(m, idx)
    IN  [k \in 1..Len(sel) |-> m[sel[k][1] + 1][sel[k][2] + 1]]

\* zip(a, b, c): triples up to the shortest argument
Zip(a, b, c) ==
    [k \in 1..Min(Len(a), Min(Len(b), Len(c))) |-> <<a[k], b[k], c[k]>>]

\* Names with the generated names counted from 1
NamesFromOne(m, l) ==
    IF l.present /\ l.val # <<>> THEN l.val
    ELSE [i \in 1..Rows(m) |-> <<"x">> \o Digits(i)]

\* names = labels if labels else [f'x{i}' for i in range(len(adjacency_matrix))]
\* (None and the empty list are both falsy)
Names(m, l) ==
    IF l.present /\ l.val # <<>> THEN l.val
    ELSE [i \in 1..Rows(m) |-> <<"x">> \o Digits(i - 1)]

\* d.node(name): a node statement of the graph body
Node(name) == [op |-> "node", name |-> name, head |-> <<>>, label |-> <<>>]

\* d.edge(tail_name, head_name, label=label): an edge statement, whose field
\* name holds the tail
Edge(tail_name, head_name, label) ==
    [op |-> "edge", name |-> tail_name, head |-> head_name, label |-> label]

\* NodeLoop stopping before the last name
NodeLoopShort(names) == [k \in 1..(Len(names) - 1) |-> Node(names[k])]

\* NodeLoop walking the names from the last to the first
NodeLoopReversed(names) == [k \in 1..Len(names) |-> Node(names[Len(names) + 1 - k])]

\* the statements of the first loop: one node per name, in order
NodeLoop(names) == [k \in 1..Len(names) |-> Node(names[k])]

\* EdgeOf with the row taken as the tail and the column as the head
EdgeOfSwapped(names, t) == Edge(names[t[1] + 1], names[t[2] + 1], Str(t[3]))

\* one turn of the second loop: d.edge(names[from_], names[to], label=str(coef))
EdgeOf(names, t) == Edge(names[t[2] + 1], names[t[1] + 1], Str(t[3]))

\* names[from_] or names[to] is out of range in some turn of the second loop
IndexError(names, zipped) ==
    \E k \in 1..Len(zipped) :
        zipped[k][2] >= Len(names) \/ zipped[k][1] >= Len(names)

\* the statements of the second loop when no turn raises
EdgeLoop(names, zipped) == [k \in 1..Len(zipped) |-> EdgeOf(names, zipped[k])]

\* a Digraph that is the one built by the call before, not a new one
DigraphKept == IF later # <<>> THEN later[Len(later)] ELSE d

\* d = graphviz.Digraph(engine='dot'): a new graph with an empty body
Digraph == <<>>

\* make_graph(adjacency_matrix, labels): the body of the Digraph returned,
\* or raised when an index is out of range (the graph is then lost)
make_graph(m, l) ==
    LET idx    == Mask(m)
        dirs   == Where(m, idx)
        names  == Names(m, l)
        zipped == Zip(dirs[1], dirs[2], Masked(m, idx))
    IN  IF IndexError(names, zipped)
        THEN [raised |-> TRUE, body |-> <<>>]
        ELSE [raised |-> FALSE,
              body |-> Digraph \o NodeLoop(names) \o EdgeLoop(names, zipped)]

(* --------------------- graphviz: quoting and source -------------------- *)

LowerCase == <<"a", "b", "c", "d", "e", "f", "g", "h", "i", "j", "k", "l", "m",
               "n", "o", "p", "q", "r", "s", "t", "u", "v", "w", "x", "y", "z">>

UpperCase == <<"A", "B", "C", "D", "E", "F", "G", "H", "I", "J", "K", "L", "M",
               "N", "O", "P", "Q", "R", "S", "T", "U", "V", "W", "X", "Y", "Z">>

DigitChars == {DigitChar(k) : k \in 0..9}

\* str.lower() of one character
LowerChar(c) ==
    IF \E k \in 1..26 : UpperCase[k] = c
    THEN LowerCase[CHOOSE k \in 1..26 : UpperCase[k] = c]
    ELSE c

Lower(s) == [k \in 1..Len(s) |-> LowerChar(s[k])]

\* the words graphviz never leaves unquoted
Keywords ==
    { <<"n", "o", "d", "e">>, <<"e", "d", "g", "e">>, <<"g", "r", "a", "p", "h">>,
      <<"d", "i", "g", "r", "a", "p", "h">>,
      <<"s", "u", "b", "g", "r", "a", "p", "h">>,
      <<"s", "t", "r", "i", "c", "t">> }

\* [a-zA-Z_][a-zA-Z0-9_]*
IsIdentifier(s) ==
    /\ s # <<>>
    /\ s[1] \in Range(LowerCase) \cup Range(UpperCase) \cup {"_"}
    /\ \A k \in 1..Len(s) :
          s[k] \in Range(LowerCase) \cup Range(UpperCase) \cup DigitChars \cup {"_"}

\* -?(\.[0-9]+|[0-9]+(\.[0-9]*)?)
IsNumeral(s) ==
    LET u == IF s # <<>> /\ s[1] = "-" THEN Tail(s) ELSE s
    IN  /\ \A k \in 1..Len(u) : u[k] \in DigitChars \cup {"."}
        /\ Cardinality({k \in 1..Len(u) : u[k] = "."}) <= 1
        /\ \E k \in 1..Len(u) : u[k] \in DigitChars

\* graphviz quote(identifier): an identifier or a numeral that is no keyword
\* stays as it is, anything else is put between double quotes (no name of the
\* model holds a double quote or a backslash, which quote() would escape)
Quote(s) ==
    IF (IsIdentifier(s) \/ IsNumeral(s)) /\ Lower(s) \notin Keywords
    THEN s
    ELSE <<"\"">> \o s \o <<"\"">>

\* the text of a statement: a quoted name, or
\* tail -> head [label=...] with each part quoted
Statement(stmt) ==
    IF stmt.op = "node"
    THEN Quote(stmt.name)
    ELSE Quote(stmt.name) \o <<" ", "-", ">", " ">> \o Quote(stmt.head)
             \o <<" ", "[", "l", "a", "b", "e", "l", "=">> \o Quote(stmt.label)
             \o <<"]">>

\* the line graphviz keeps for a statement of the body
Line(stmt) == <<"\t">> \o Statement(stmt) \o <<"\n">>

\* the opening line of an unnamed directed graph
Header == <<"d", "i", "g", "r", "a", "p", "h", " ", "{">>

\* graph.source: the header line, the lines of the body, the closing line,
\* each ended by a line break (older graphviz releases leave out the last
\* line break, which string.strip() removes anyway)
Source(body) ==
    Header \o <<"\n">> \o Concat([k \in 1..Len(body) |-> Line(body[k])])
        \o <<"}", "\n">>

(* ----------------------------- str_to_dot ------------------------------ *)

\* the slice bounds of graph[:9] + graph[10:-2] + graph[-1]
PrefixStop == 9

BodyStart == 10

BodyStop == -2

LastIndex == -1

\* the characters str.strip() removes
Whitespace == {" ", "\t", "\n"}

RECURSIVE LStrip(_)
LStrip(s) == IF s # <<>> /\ Head(s) \in Whitespace THEN LStrip(Tail(s)) ELSE s

RECURSIVE RStrip(_)
RStrip(s) ==
    IF s # <<>> /\ s[Len(s)] \in Whitespace THEN RStrip(SubSeq(s, 1, Len(s) - 1))
    ELSE s

\* string.strip()
Strip(s) == RStrip(LStrip(s))

RECURSIVE Replace(_, _, _)
\* str.replace(old, new) for a one-character old
Replace(s, old, new) ==
    IF s = <<>> THEN <<>>
    ELSE (IF Head(s) = old THEN new ELSE <<Head(s)>>) \o Replace(Tail(s), old, new)

\* a Python slice bound: negative counts from the end, clamped to 0..len
Bound(i, len) == IF i < 0 THEN Max(i + len, 0) ELSE Min(i, len)

\* s[start:stop]
Slice(s, start, stop) ==
    LET lo == Bound(start, Len(s))
        hi == Bound(stop, Len(s))
    IN  IF lo >= hi THEN <<>> ELSE [k \in 1..(hi - lo) |-> s[lo + k]]

\* Normalize without the replace('\t', '') call
NormalizeKeepTabs(s) == Replace(Strip(s), "\n", <<";">>)

\* Normalize without the strip() call
NormalizeUnstripped(s) == Replace(Replace(s, "\n", <<";">>), "\t", <<>>)

\* graph = string.strip().replace('\n', ';').replace('\t', '')
Normalize(s) == Replace(Replace(Strip(s), "\n", <<";">>), "\t", <<>>)

\* Stripped with the middle slice one character shorter: graph[10:-3]
StrippedShort(graph) ==
    Slice(graph, 0, PrefixStop) \o Slice(graph, BodyStart, BodyStop - 1)
        \o <<graph[Len(graph) + 1 + LastIndex]>>

\* Stripped with the middle slice starting one character early: graph[9:-2]
StrippedEarly(graph) ==
    Slice(graph, 0, PrefixStop) \o Slice(graph, BodyStart - 1, BodyStop)
        \o <<graph[Len(graph) + 1 + LastIndex]>>

\* graph[:9] + graph[10:-2] + graph[-1], for a graph that is not empty
Stripped(graph) ==
    Slice(graph, 0, PrefixStop) \o Slice(graph, BodyStart, BodyStop)
        \o <<graph[Len(graph) + 1 + LastIndex]>>

\* str_to_dot(string): the text returned, or raised when graph[-1] indexes an
\* empty text
str_to_dot(s) ==
    LET graph == Normalize(s)
    IN  IF graph = <<>>
        THEN [raised |-> TRUE, val |-> <<>>]
        ELSE [raised |-> FALSE, val |-> Stripped(graph)]

(* ------------- reading a text as a directed-graph description ---------- *)

\* CausalModel(graph=graph_dot) reads the text in the DOT grammar.  The reader
\* below covers the part of the grammar the rendered texts use: an unnamed
\* digraph { ... } block of node statements and of edge statements
\* tail -> head [label=...], each optionally followed by ';'.

Punctuation == {"{", "}", ";", "[", "]", "="}

\* the characters of an unquoted name or numeral after its first character
NameChars == Range(LowerCase) \cup Range(UpperCase) \cup DigitChars \cup {"_", "."}

Token(t, v) == [t |-> t, v |-> v]

RECURSIVE RunEnd(_, _)
\* the last position of the run of name characters that starts at position i
RunEnd(s, i) ==
    IF i < Len(s) /\ s[i + 1] \in NameChars THEN RunEnd(s, i + 1) ELSE i

\* the position of the first double quote after position i, 0 when none
QuoteEnd(s, i) ==
    IF \E j \in (i + 1)..Len(s) : s[j] = "\""
    THEN CHOOSE j \in (i + 1)..Len(s) :
            s[j] = "\"" /\ \A k \in (i + 1)..(j - 1) : s[k] # "\""
    ELSE 0

RECURSIVE Lex(_, _)
\* the tokens of s from position i on: names (quoted ones without their
\* quotes), the edge operator, punctuation; "bad" for anything else
Lex(s, i) ==
    IF i > Len(s) THEN <<>>
    ELSE IF s[i] \in Whitespace THEN Lex(s, i + 1)
    ELSE IF s[i] = "\""
         THEN IF QuoteEnd(s, i) = 0 THEN <<Token("bad", <<>>)>>
              ELSE <<Token("id", SubSeq(s, i + 1, QuoteEnd(s, i) - 1))>>
                       \o Lex(s, QuoteEnd(s, i) + 1)
    ELSE IF s[i] = "-" /\ i < Len(s) /\ s[i + 1] = ">"
         THEN <<Token("->", <<>>)>> \o Lex(s, i + 2)
    ELSE IF s[i] \in Punctuation THEN <<Token(s[i], <<>>)>> \o Lex(s, i + 1)
    ELSE IF s[i] \in NameChars \cup {"-"}
         THEN <<Token("id", SubSeq(s, i, RunEnd(s, i)))>> \o Lex(s, RunEnd(s, i) + 1)
    ELSE <<Token("bad", <<>>)>>

\* the token at position i is of kind t
Is(toks, i, t) == i <= Len(toks) /\ toks[i].t = t

\* a graph: its nodes, and its edges as (tail, head, label) triples; ok is
\* FALSE for a text the grammar rejects
Graph(ok, nodes, edges) == [ok |-> ok, nodes |-> nodes, edges |-> edges]

NoGraph == Graph(FALSE, {}, {})

\* positions i..i+4 hold [label=value]
HasLabel(toks, i) ==
    /\ Is(toks, i, "[") /\ Is(toks, i + 1, "id") /\ Is(toks, i + 2, "=")
    /\ Is(toks, i + 3, "id") /\ Is(toks, i + 4, "]")
    /\ toks[i + 1].v = <<"l", "a", "b", "e", "l">>

\* the position after an optional ';' at position i
SkipSemi(toks, i) == IF Is(toks, i, ";") THEN i + 1 ELSE i

RECURSIVE Statements(_, _, _)
\* the statement list from position i on, added to the graph g, up to the
\* closing brace that ends the text
Statements(toks, i, g) ==
    IF Is(toks, i, "}") THEN (IF i = Len(toks) THEN g ELSE NoGraph)
    ELSE IF ~Is(toks, i, "id") THEN NoGraph
    ELSE IF Is(toks, i + 1, "->") /\ Is(toks, i + 2, "id")
         THEN IF HasLabel(toks, i + 3)
              THEN Statements(toks, SkipSemi(toks, i + 8),
                     Graph(TRUE, g.nodes \cup {toks[i].v, toks[i + 2].v},
                           g.edges \cup {<<toks[i].v, toks[i + 2].v, toks[i + 6].v>>}))
              ELSE Statements(toks, SkipSemi(toks, i + 3),
                     Graph(TRUE, g.nodes \cup {toks[i].v, toks[i + 2].v},
                           g.edges \cup {<<toks[i].v, toks[i + 2].v, <<>> >>}))
    ELSE Statements(toks, SkipSemi(toks, i + 1),
                    Graph(TRUE, g.nodes \cup {toks[i].v}, g.edges))

\* the graph a text describes
ParseDot(s) ==
    LET toks == Lex(s, 1)
    IN  IF Is(toks, 1, "id") /\ toks[1].v = <<"d", "i", "g", "r", "a", "p", "h">>
           /\ Is(toks, 2, "{")
        THEN Statements(toks, 3, Graph(TRUE, {}, {}))
        ELSE NoGraph

\* the graph a body declares
GraphOf(body) ==
    Graph(TRUE,
          { body[k].name : k \in 1..Len(body) }
              \cup { body[k].head : k \in { n \in 1..Len(body) : body[n].op = "edge" } },
          { <<body[k].name, body[k].head, body[k].label>> :
                k \in { n \in 1..Len(body) : body[n].op = "edge" } })

(* ----------------------------- the program ----------------------------- *)

\* Before the first call: either the notebook is about to call make_graph on a
\* matrix and labels, or a caller hands a text of its own to str_to_dot.
\* no workflow run is part of the behaviour
NoWorkflow ==
    /\ event = [name |-> "none", action |-> "none", body |-> <<>>, sender |-> "none"]
    /\ job = [python |-> "none", poetry |-> "none", group |-> 0]
    /\ step = 0
    /\ outcomes = <<>>
    /\ ran = <<>>
    /\ comments = <<>>
    /\ inbox = {}

Init ==
    /\ origin \in {"make_graph", "caller"}
    /\ IF origin = "make_graph"
       THEN /\ adjacency_matrix \in UNION { Matrices(s[1], s[2]) : s \in Shapes }
            /\ labels \in LabelArgs
            /\ pc = "start"
            /\ string = <<>>
       ELSE /\ adjacency_matrix = <<>>
            /\ labels = NoLabels
            /\ pc = "text"
            /\ string \in Texts
    /\ d = <<>>
    /\ err = "none"
    /\ graph_dot = <<>>
    /\ passes = 0
    /\ later = <<>>
    /\ graphs = <<>>
    /\ data = "none"
    /\ method = 0
    /\ calls = <<>>
    /\ NoWorkflow

\* graph_dot = make_graph(adj_matrix, labels)
MakeGraphCall ==
    /\ pc = "start"
    /\ LET r == make_graph(adjacency_matrix, labels)
       IN  IF r.raised
           THEN pc' = "raised" /\ err' = "IndexError" /\ d' = d
           ELSE pc' = "built" /\ err' = err /\ d' = r.body
    /\ UNCHANGED <<adjacency_matrix, labels, origin, string, graph_dot, passes, later>>
    /\ UNCHANGED <<loopvars, wfvars>>

\* a call of str_to_dot on the text s
Apply(s) ==
    /\ string' = s
    /\ LET r == str_to_dot(s)
       IN  IF r.raised
           THEN pc' = "failed" /\ err' = "IndexError" /\ graph_dot' = graph_dot
           ELSE pc' = "done" /\ err' = err /\ graph_dot' = r.val
    /\ passes' = passes + 1
    /\ UNCHANGED <<adjacency_matrix, labels, origin, d, later>>
    /\ UNCHANGED <<loopvars, wfvars>>

\* graph_dot = str_to_dot(graph.source)
StrToDotOfSource == pc = "built" /\ Apply(Source(d))

\* str_to_dot(string) on a text of the caller's
StrToDotOfText == pc = "text" /\ Apply(string)

\* the result of the first call is handed to str_to_dot once more
StrToDotAgain == pc = "done" /\ passes = 1 /\ Apply(graph_dot)

\* a later call of make_graph whose result is kept beside the first graph
Later(m, l, at) ==
    /\ LET r == make_graph(m, l)
       IN  IF r.raised
           THEN pc' = "raised" /\ err' = "IndexError" /\ later' = later
           ELSE pc' = at /\ err' = err /\ later' = Append(later, r.body)
    /\ UNCHANGED <<adjacency_matrix, labels, origin, d, string, graph_dot, passes>>
    /\ UNCHANGED <<loopvars, wfvars>>

\* the loop over the discovery methods goes on: make_graph is called with the
\* matrix of another method and the same labels
MakeGraphOther == pc = "built" /\ Later(OtherMatrix, labels, "other")

\* after it, make_graph is called once more with the arguments of the first
\* call
MakeGraphRepeat == pc = "other" /\ Later(adjacency_matrix, labels, "repeated")

Next ==
    \/ MakeGraphCall
    \/ MakeGraphOther
    \/ MakeGraphRepeat
    \/ StrToDotOfSource
    \/ StrToDotOfText
    \/ StrToDotAgain

Spec == Init /\ [][Next]_vars

(* ---------------------- the effect-estimation loops --------------------- *)

\* functions = {'LiNGAM': LiNGAM, 'PC': PC, 'GES': GES}: the keys of graphs
\* in insertion order, which is the order graphs.items() yields them
Methods == <<"LiNGAM", "PC", "GES">>

\* the two datasets of the notebook, each with its own estimation loop
Datasets == {"data_mpg", "data_sachs"}

\* treatment= and outcome= of the CausalModel call of each loop
Treatment(ds) == IF ds = "data_mpg" THEN "mpg" ELSE "PIP2"

Outcome(ds) == IF ds = "data_mpg" THEN "weight" ELSE "PKC"

\* the labels of the columns and the adjacency matrices the discovery methods
\* may return, from which the first loop of the notebook builds graphs
ColumnLabels == [present |-> TRUE, val |-> << <<"A">>, <<"B">> >>]

DiscoveredMatrices ==
    { << <<0, 0>>, <<0, 0>> >>, << <<0, 600>>, <<0, 0>> >>, << <<0, 0>>, <<500, 0>> >> }

\* graphs[method] = make_graph(adj_matrix, labels)
DiscoveredGraphs == { make_graph(m, ColumnLabels).body : m \in DiscoveredMatrices }

\* the test of the loop with the comparison turned round
SkippedInverted(m) == m = "LiNGAM"

\* if method != "LiNGAM": continue
Skipped(m) == m # "LiNGAM"

\* the state when a loop starts: graphs holds one graph per method
InitEstimate ==
    /\ origin = "estimate"
    /\ data \in Datasets
    /\ graphs \in [Range(Methods) -> DiscoveredGraphs]
    /\ pc = "for"
    /\ method = 0
    /\ calls = <<>>
    /\ adjacency_matrix = <<>>
    /\ labels = NoLabels
    /\ d = <<>>
    /\ err = "none"
    /\ string = <<>>
    /\ graph_dot = <<>>
    /\ passes = 0
    /\ later = <<>>
    /\ NoWorkflow

\* a call made in the body of the loop, as the loop records it
Call(fn, arg) ==
    [method |-> Methods[method], fn |-> fn, arg |-> arg,
     data |-> data, treatment |-> Treatment(data), outcome |-> Outcome(data)]

\* for method, graph in graphs.items(): the next item, or the end of the loop
ForNext ==
    /\ pc = "for"
    /\ IF method < Len(Methods)
       THEN method' = method + 1 /\ d' = graphs[Methods[method + 1]] /\ pc' = "if"
       ELSE method' = method /\ d' = d /\ pc' = "end"
    /\ UNCHANGED <<adjacency_matrix, labels, origin, err, string, graph_dot, passes,
                   later, graphs, data, calls>>
    /\ UNCHANGED wfvars

\* if method != "LiNGAM": continue
Continue ==
    /\ pc = "if"
    /\ Skipped(Methods[method])
    /\ pc' = "for"
    /\ UNCHANGED <<utilvars, loopvars, wfvars, origin, err, graph_dot>>

\* the test fails and the body of the loop is entered
EnterBody ==
    /\ pc = "if"
    /\ ~Skipped(Methods[method])
    /\ pc' = "str_to_dot"
    /\ UNCHANGED <<utilvars, loopvars, wfvars, origin, err, graph_dot>>

\* graph_dot = str_to_dot(graph.source)
LoopStrToDot ==
    /\ pc = "str_to_dot"
    /\ string' = Source(d)
    /\ calls' = Append(calls, Call("str_to_dot", Source(d)))
    /\ LET r == str_to_dot(Source(d))
       IN  IF r.raised
           THEN pc' = "raised" /\ err' = "IndexError" /\ graph_dot' = graph_dot
           ELSE pc' = "CausalModel" /\ err' = err /\ graph_dot' = r.val
    /\ UNCHANGED <<adjacency_matrix, labels, origin, d, passes, later, graphs, data, method>>
    /\ UNCHANGED wfvars

\* a call of the dowhy library in the body of the loop, which returns
LibraryCall(at, fn, arg, then) ==
    /\ pc = at
    /\ calls' = Append(calls, Call(fn, arg))
    /\ pc' = then
    /\ UNCHANGED <<utilvars, wfvars, origin, err, graph_dot, graphs, data, method>>

\* model = CausalModel(data=..., treatment=..., outcome=..., graph=graph_dot)
DefineModel == LibraryCall("CausalModel", "CausalModel", graph_dot, "identify_effect")

\* identified_estimand = model.identify_effect(proceed_when_unidentifiable=True)
IdentifyEffect == LibraryCall("identify_effect", "identify_effect", <<>>, "estimate_effect")

\* estimate = model.estimate_effect(identified_estimand, ...)
EstimateEffect == LibraryCall("estimate_effect", "estimate_effect", <<>>, "for")

\* a call of the dowhy library raises and the cell stops
LibraryRaises ==
    /\ pc \in {"CausalModel", "identify_effect", "estimate_effect"}
    /\ calls' = Append(calls, Call(pc, IF pc = "CausalModel" THEN graph_dot ELSE <<>>))
    /\ pc' = "raised"
    /\ err' = "Exception"
    /\ UNCHANGED <<utilvars, wfvars, origin, graph_dot, graphs, data, method>>

NextEstimate ==
    \/ ForNext
    \/ Continue
    \/ EnterBody
    \/ LoopStrToDot
    \/ DefineModel
    \/ IdentifyEffect
    \/ EstimateEffect
    \/ LibraryRaises

SpecEstimate == InitEstimate /\ [][NextEstimate]_vars

(* ------------- the workflow 'Advanced Tests (on demand)' --------------- *)

\* the comment that asks for the tests: 'test advanced'
TestAdvanced ==
    <<"t", "e", "s", "t", " ", "a", "d", "v", "a", "n", "c", "e", "d">>

\* body: 'Launching advanced tests' and the rocket sign
Launching ==
    <<"L", "a", "u", "n", "c", "h", "i", "n", "g", " ", "a", "d", "v", "a",
      "n", "c", "e", "d", " ", "t", "e", "s", "t", "s", " ", "U+1F680">>

\* body: 'Advanced tests succeeded!' and the check mark
Succeeded ==
    <<"A", "d", "v", "a", "n", "c", "e", "d", " ", "t", "e", "s", "t", "s",
      " ", "s", "u", "c", "c", "e", "e", "d", "e", "d", "!", " ", "U+2705">>

\* body: 'Advanced tests failed!' and the cross mark
Failed ==
    <<"A", "d", "v", "a", "n", "c", "e", "d", " ", "t", "e", "s", "t", "s",
      " ", "f", "a", "i", "l", "e", "d", "!", " ", "U+274C">>

\* bodies of comments a user may write: the request, the request in other
\* letter case, with a trailing space, a part of it, and the texts the
\* workflow posts
UserBodies ==
    { TestAdvanced,
      <<"T", "e", "s", "t", " ", "A", "d", "v", "a", "n", "c", "e", "d">>,
      <<"T", "E", "S", "T", " ", "A", "D", "V", "A", "N", "C", "E", "D">>,
      <<"t", "e", "s", "t", " ", "a", "d", "v", "a", "n", "c", "e", "d", " ">>,
      <<"t", "e", "s", "t">>,
      Launching, Succeeded, Failed }

\* on: issue_comment: types: [created, edited]
TriggerName == "issue_comment"

TriggerTypes == {"created", "edited"}

\* the events of the repository a user may cause
UserEvents ==
    { [name |-> "issue_comment", action |-> a, body |-> b, sender |-> "user"] :
          a \in {"created", "edited", "deleted"}, b \in UserBodies }
    \cup { [name |-> n, action |-> "opened", body |-> TestAdvanced, sender |-> "user"] :
          n \in {"pull_request", "issues"} }

\* strategy: matrix: python-version, poetry-version, test-group
PythonVersions == {"3.8", "3.9", "3.10"}

PoetryVersions == {"1.3.1"}

TestGroups == {1, 2, 3, 4}

Matrix == [python : PythonVersions, poetry : PoetryVersions, group : TestGroups]

\* --splits 4
Splits == 4

\* the event starts a run of the workflow
Triggers(ev) == ev.name = TriggerName /\ ev.action \in TriggerTypes

\* == of the expression language: strings are compared ignoring letter case
ExprEquals(a, b) == Lower(a) = Lower(b)

\* a job without the if: line
JobIfAbsent(ev) == TRUE

\* if: ${{ github.event.comment.body == 'test advanced'}}
JobIf(ev) == ExprEquals(ev.body, TestAdvanced)

\* the steps of the job 'verify' in the listed order: the status check of
\* the step (success() when it has no if: line), the comment it posts and
\* the matrix value it uses
Steps ==
    << [name |-> "Message Initiating", cond |-> "success", posts |-> Launching, uses |-> "none"],
       [name |-> "Get PR SHA", cond |-> "success", posts |-> <<>>, uses |-> "none"],
       [name |-> "actions/checkout@v2", cond |-> "success", posts |-> <<>>, uses |-> "none"],
       [name |-> "Set up Python", cond |-> "success", posts |-> <<>>, uses |-> "python"],
       [name |-> "Install Poetry", cond |-> "success", posts |-> <<>>, uses |-> "poetry"],
       [name |-> "Install graphviz", cond |-> "success", posts |-> <<>>, uses |-> "none"],
       [name |-> "Install dependencies", cond |-> "success", posts |-> <<>>, uses |-> "none"],
       [name |-> "Run Advanced Tests", cond |-> "success", posts |-> <<>>, uses |-> "group"],
       [name |-> "Message success", cond |-> "success", posts |-> Succeeded, uses |-> "none"],
       [name |-> "Message failure", cond |-> "failure", posts |-> Failed, uses |-> "none"] >>

\* success(): none of the previous steps has failed
Success(os) == \A k \in 1..Len(os) : os[k] # "failure"

\* a failure() that does not look at the previous steps
FailureAlways(os) == TRUE

\* failure(): a previous step of the job has failed
Failure(os) == \E k \in 1..Len(os) : os[k] = "failure"

\* the if: of a step, evaluated when the step is reached
StepIf(st, os) == IF st.cond = "failure" THEN Failure(os) ELSE Success(os)

\* the matrix value a step uses
MatrixValue(st, j) ==
    IF st.uses = "python" THEN j.python
    ELSE IF st.uses = "poetry" THEN j.poetry
    ELSE IF st.uses = "group" THEN <<Splits, j.group>>
    ELSE "none"

\* a user causes an event; one job of the matrix is followed
InitWorkflow ==
    /\ origin = "workflow"
    /\ pc = "event"
    /\ event \in UserEvents
    /\ job \in Matrix
    /\ step = 0
    /\ outcomes = <<>>
    /\ ran = <<>>
    /\ comments = <<>>
    /\ inbox = {}
    /\ adjacency_matrix = <<>>
    /\ labels = NoLabels
    /\ d = <<>>
    /\ err = "none"
    /\ string = <<>>
    /\ graph_dot = <<>>
    /\ passes = 0
    /\ later = <<>>
    /\ graphs = <<>>
    /\ data = "none"
    /\ method = 0
    /\ calls = <<>>

\* on: the event starts a run of the workflow or is ignored
On ==
    /\ pc = "event"
    /\ pc' = IF Triggers(event) THEN "job" ELSE "ignored"
    /\ UNCHANGED <<utilvars, loopvars, wfvars, origin, err, graph_dot>>

\* jobs.verify.if: the job starts with its first step or is skipped
VerifyIf ==
    /\ pc = "job"
    /\ IF JobIf(event)
       THEN pc' = "steps" /\ step' = 1 /\ outcomes' = <<>> /\ ran' = <<>>
       ELSE pc' = "skipped" /\ UNCHANGED <<step, outcomes, ran>>
    /\ UNCHANGED <<utilvars, loopvars, origin, err, graph_dot, event, job, comments, inbox>>

\* the job goes on to the next step, or is complete after the last one
Advance ==
    /\ step' = step + 1
    /\ pc' = IF step = Len(Steps) THEN "completed" ELSE "steps"

\* the step reached runs, since its if: holds, and succeeds or fails; a
\* message step that succeeds has posted its comment, which is an
\* issue_comment event of its own
RunStep ==
    /\ pc = "steps"
    /\ StepIf(Steps[step], outcomes)
    /\ \E o \in {"success", "failure"} :
          /\ outcomes' = Append(outcomes, o)
          /\ IF o = "success" /\ Steps[step].posts # <<>>
             THEN /\ comments' = Append(comments, Steps[step].posts)
                  /\ inbox' = inbox \cup {Steps[step].posts}
             ELSE UNCHANGED <<comments, inbox>>
    /\ ran' = Append(ran, [name |-> Steps[step].name, with |-> MatrixValue(Steps[step], job)])
    /\ Advance
    /\ UNCHANGED <<utilvars, loopvars, origin, err, graph_dot, event, job>>

\* the step reached is skipped, since its if: does not hold
SkipStep ==
    /\ pc = "steps"
    /\ ~StepIf(Steps[step], outcomes)
    /\ outcomes' = Append(outcomes, "skipped")
    /\ Advance
    /\ UNCHANGED <<utilvars, loopvars, origin, err, graph_dot, event, job, ran, comments, inbox>>

\* the job is cancelled (by a user, or by fail-fast when another job of the
\* matrix fails): no further step runs
Cancel ==
    /\ pc = "steps"
    /\ pc' = "cancelled"
    /\ UNCHANGED <<utilvars, loopvars, wfvars, origin, err, graph_dot>>

\* a comment the workflow posted arrives as an issue_comment event
OwnComment ==
    /\ pc \in {"ignored", "skipped", "completed", "cancelled"}
    /\ \E c \in inbox :
          /\ event' = [name |-> "issue_comment", action |-> "created", body |-> c,
                       sender |-> "workflow"]
          /\ inbox' = inbox \ {c}
    /\ pc' = "event"
    /\ UNCHANGED <<utilvars, loopvars, origin, err, graph_dot, job, step, outcomes, ran, comments>>

NextWorkflow ==
    \/ On
    \/ VerifyIf
    \/ RunStep
    \/ SkipStep
    \/ Cancel
    \/ OwnComment

SpecWorkflow == InitWorkflow /\ [][NextWorkflow]_vars

(* ------------------------- reading a graph body ------------------------ *)

\* the matrix has as many columns as rows
Square(m) == Rows(m) = Cols(m)

\* the 1-based cells of a matrix
Cells(m) == (1..Rows(m)) \X (1..Cols(m))

\* the cells whose absolute value exceeds 0.01
Passing(m) == { p \in Cells(m) : Abs(m[p[1]][p[2]]) > 10 }

\* the names of the nodes a body declares, in the order of declaration
DeclaredNodes(body) ==
    LET stmts == SelectSeq(body, LAMBDA st : st.op = "node")
    IN  [k \in 1..Len(stmts) |-> stmts[k].name]

\* the edges a body declares, in the order of declaration
DeclaredEdges(body) == SelectSeq(body, LAMBDA st : st.op = "edge")

\* make_graph has returned a graph for the arguments of the state
Built == origin = "make_graph" /\ pc = "built"

\* the labels argument is a list of as many labels as the matrix has rows
LabelsFit == labels.present /\ Len(labels.val) = Rows(adjacency_matrix)

(* ------------------------------- claims -------------------------------- *)

\* C1: for a square matrix of dimension N and a list L of N unique labels,
\* make_graph declares exactly N nodes and the i-th declared node is L[i].
C1_NodesAreLabelsInOrder ==
    (Built /\ Square(adjacency_matrix) /\ LabelsFit)
        => DeclaredNodes(d) = labels.val

C1_Witness ==
    /\ Built /\ Square(adjacency_matrix) /\ LabelsFit
    /\ Rows(adjacency_matrix) = 2
    /\ labels.val = << <<"A">>, <<"B">> >>
    /\ DeclaredEdges(d) # <<>>

\* the body declares an edge whose tail is the node declared for column j and
\* whose head is the node declared for row i (1-based)
HasEdgeFor(body, i, j) ==
    /\ i <= Len(DeclaredNodes(body))
    /\ j <= Len(DeclaredNodes(body))
    /\ \E k \in 1..Len(DeclaredEdges(body)) :
          /\ DeclaredEdges(body)[k].name = DeclaredNodes(body)[j]
          /\ DeclaredEdges(body)[k].head = DeclaredNodes(body)[i]

\* C2: make_graph declares an edge for cell (i, j) if and only if
\* |M[i][j]| > 0.01, strictly: 0.01 and -0.01 give no edge, a cell below -0.01
\* gives one, and the graph has as many edges as cells exceed 0.01 in
\* absolute value.
C2_EdgeIffAboveThreshold ==
    Built =>
        /\ \A p \in Cells(adjacency_matrix) :
              HasEdgeFor(d, p[1], p[2]) <=> p \in Passing(adjacency_matrix)
        /\ \A p \in Cells(adjacency_matrix) :
              adjacency_matrix[p[1]][p[2]] \in {10, -10} => ~HasEdgeFor(d, p[1], p[2])
        /\ \A p \in Cells(adjacency_matrix) :
              adjacency_matrix[p[1]][p[2]] < -10 => HasEdgeFor(d, p[1], p[2])
        /\ Len(DeclaredEdges(d)) = Cardinality(Passing(adjacency_matrix))

C2_Witness ==
    /\ Built
    /\ \E p, q \in Cells(adjacency_matrix) :
          adjacency_matrix[p[1]][p[2]] = -10 /\ adjacency_matrix[q[1]][q[2]] = -20
    /\ Len(DeclaredEdges(d)) = 1

\* C3: the edge declared for a passing cell (row i, column j) goes from the
\* node of index j to the node of index i and is labelled str(M[i][j]); for
\* M = [[0, 0.5], [0.6, 0]] and labels [A, B] the edges are exactly
\* A -> B labelled 0.6 and B -> A labelled 0.5.
C3_EdgeFromColumnToRow ==
    Built =>
        /\ \A p \in Passing(adjacency_matrix) :
              \E k \in 1..Len(DeclaredEdges(d)) :
                  DeclaredEdges(d)[k] =
                      Edge(DeclaredNodes(d)[p[2]], DeclaredNodes(d)[p[1]],
                           Str(adjacency_matrix[p[1]][p[2]]))
        /\ ( /\ adjacency_matrix = << <<0, 500>>, <<600, 0>> >>
             /\ labels.present
             /\ labels.val = << <<"A">>, <<"B">> >> )
           => /\ Len(DeclaredEdges(d)) = 2
              /\ Range(DeclaredEdges(d)) =
                    { Edge(<<"A">>, <<"B">>, <<"0", ".", "6">>),
                      Edge(<<"B">>, <<"A">>, <<"0", ".", "5">>) }

C3_Witness ==
    /\ Built
    /\ adjacency_matrix = << <<0, 500>>, <<600, 0>> >>
    /\ labels.present
    /\ labels.val = << <<"A">>, <<"B">> >>
    /\ Len(DeclaredEdges(d)) = 2

\* str_to_dot has returned, for the first time, the text of a graph that
\* make_graph built
Serialized == origin = "make_graph" /\ pc = "done" /\ passes = 1

\* no label of the list holds a line break or a tab
NoBreakNoTab(l) ==
    \A k \in 1..Len(l) : \A n \in 1..Len(l[k]) : l[k][n] \notin {"\n", "\t"}

\* C4 as stated: for every square matrix and every list of unique labels, the
\* text str_to_dot returns for the rendered graph describes the same nodes and
\* the same (source, target, label) edges as the graph make_graph built.
C4_RoundTripAnyLabels ==
    (Serialized /\ Square(adjacency_matrix) /\ LabelsFit)
        => ParseDot(graph_dot) = GraphOf(d)

\* C4, amended: the round trip holds when no label holds a line break or a
\* tab (str_to_dot rewrites these characters inside names too).
C4_RoundTrip ==
    (Serialized /\ Square(adjacency_matrix) /\ LabelsFit /\ NoBreakNoTab(labels.val))
        => ParseDot(graph_dot) = GraphOf(d)

C4_Witness ==
    /\ Serialized /\ Square(adjacency_matrix) /\ LabelsFit
    /\ labels.val = << <<"p", "/", "4">> >>
    /\ adjacency_matrix = << <<600>> >>
    /\ ParseDot(graph_dot).edges = { << <<"p", "/", "4">>, <<"p", "/", "4">>, <<"0", ".", "6">> >> }

RECURSIVE JoinWith(_, _)
\* sep.join(parts)
JoinWith(parts, sep) ==
    IF parts = <<>> THEN <<>>
    ELSE IF Len(parts) = 1 THEN parts[1]
    ELSE parts[1] \o sep \o JoinWith(Tail(parts), sep)

\* the statements of a body as str_to_dot leaves them: without tabs
StatementTexts(body) ==
    [k \in 1..Len(body) |-> Replace(Statement(body[k]), "\t", <<>>)]

\* C5: for the rendered text of a graph built by make_graph, str_to_dot
\* returns 'digraph {', the statements separated by ';', and '}', with no
\* separator right after the opening brace or right before the closing one.
C5_DigraphBlock ==
    Serialized =>
        /\ graph_dot = Header \o JoinWith(StatementTexts(d), <<";">>) \o <<"}">>
        /\ graph_dot[Len(Header) + 1] # ";"
        /\ graph_dot[Len(graph_dot) - 1] # ";"

C5_Witness ==
    /\ Serialized
    /\ Len(DeclaredNodes(d)) = 2
    /\ Len(DeclaredEdges(d)) = 2

\* make_graph was called and has either returned or raised
Called == origin = "make_graph" /\ pc # "start"

\* C6: make_graph called with a label list whose length differs from the
\* dimension N of the matrix fails and returns no graph, for longer and for
\* shorter lists, whatever the cells.
C6_LabelMismatchFails ==
    (Called /\ Square(adjacency_matrix) /\ labels.present
            /\ Len(labels.val) # Rows(adjacency_matrix))
        => pc = "raised"

\* C7: make_graph called with a matrix that is not square fails and returns
\* no graph, whatever the cells and whether or not labels are given.
C7_NonSquareFails ==
    (Called /\ ~Square(adjacency_matrix)) => pc = "raised"

\* str_to_dot was called once on a text of the caller's and has returned or
\* raised
TextCalled == origin = "caller" /\ pc \in {"done", "failed"} /\ passes = 1

\* C8: str_to_dot applied to a text shorter than the prefix and suffix it
\* strips (the 10 characters up to graph[10:], the 2 characters from
\* graph[:-2]) fails instead of returning a string.
C8_ShortTextFails ==
    (TextCalled /\ Len(string) < BodyStart - BodyStop) => pc = "failed"

\* str_to_dot has returned from its second call, made on the result of its
\* first call on the text of a graph that make_graph built: string is the
\* result of the first call, graph_dot the result of the second
Reserialized == origin = "make_graph" /\ pc = "done" /\ passes = 2

\* C9: for the rendered text t of any graph built by make_graph,
\* str_to_dot(str_to_dot(t)) = str_to_dot(t).  (The code slices by fixed
\* offsets again: 'digraph {A}' becomes 'digraph {}'.)
C9_Idempotent == Reserialized => graph_dot = string

\* s without the characters at the positions in ps
RemoveAt(s, ps) ==
    LET keep == SelectSeq([k \in 1..Len(s) |-> k], LAMBDA k : k \notin ps)
    IN  [k \in 1..Len(keep) |-> s[keep[k]]]

\* C10 as stated: after the stripping step only the statement list followed
\* by the closing brace remains; the header of the rendering is removed.
C10_OnlyStatementsRemain ==
    Serialized => graph_dot = JoinWith(StatementTexts(d), <<";">>) \o <<"}">>

\* C10, amended: the stripping step keeps the opening 'digraph {' and the
\* closing brace and removes exactly two characters of the normalised text,
\* the separator after the opening brace and the separator before the closing
\* brace (one and the same character when the graph has no statement).
C10_StripsTwoSeparators ==
    Serialized =>
        LET graph == Normalize(string)
        IN  /\ graph[Len(Header) + 1] = ";"
            /\ graph[Len(graph) - 1] = ";"
            /\ graph_dot = RemoveAt(graph, {Len(Header) + 1, Len(graph) - 1})
            /\ SubSeq(graph_dot, 1, Len(Header)) = Header
            /\ graph_dot[Len(graph_dot)] = "}"

C10_Witness ==
    /\ Serialized
    /\ Len(d) >= 3
    /\ Len(graph_dot) = Len(Normalize(string)) - 2

\* the name 'x{i}' for an index i below 10
XName(i) == <<"x", DigitChar(i)>>

\* C11: when no labels are given, make_graph on a matrix of dimension N names
\* node i 'x{i}' for i = 0..N-1 in index order, and every edge runs between
\* these names: from 'x{column}' to 'x{row}' of its cell.
C11_DefaultNames ==
    (Built /\ Square(adjacency_matrix) /\ ~labels.present) =>
        /\ DeclaredNodes(d) = [i \in 1..Rows(adjacency_matrix) |-> XName(i - 1)]
        /\ \A k \in 1..Len(DeclaredEdges(d)) :
              \E p \in Passing(adjacency_matrix) :
                  /\ DeclaredEdges(d)[k].name = XName(p[2] - 1)
                  /\ DeclaredEdges(d)[k].head = XName(p[1] - 1)

C11_Witness ==
    /\ Built /\ Square(adjacency_matrix) /\ ~labels.present
    /\ Rows(adjacency_matrix) = 2
    /\ \E k \in 1..Len(DeclaredEdges(d)) :
          DeclaredEdges(d)[k].name = <<"x", "1">> /\ DeclaredEdges(d)[k].head = <<"x", "0">>

\* C13: for a matrix of dimension N = 0 (called without labels or with the
\* empty list) make_graph returns a graph with no node and no edge, and
\* str_to_dot of its rendered text is 'digraph {}': nothing between the braces.
C13_EmptyGraph ==
    (Called /\ adjacency_matrix = <<>> /\ (labels.present => labels.val = <<>>)) =>
        /\ pc \notin {"raised", "failed"}
        /\ d = <<>>
        /\ Serialized => graph_dot = Header \o <<"}">>

C13_Witness ==
    /\ Serialized /\ adjacency_matrix = <<>> /\ ~labels.present
    /\ string = Header \o <<"\n", "}", "\n">>
    /\ graph_dot = <<"d", "i", "g", "r", "a", "p", "h", " ", "{", "}">>

\* the cell p comes before the cell q in row-major order
RowMajorBefore(p, q) == p[1] < q[1] \/ (p[1] = q[1] /\ p[2] < q[2])

\* the 1-based rank of the passing cell p among the passing cells of m in
\* row-major order
Rank(m, p) == Cardinality({ q \in Passing(m) : RowMajorBefore(q, p) }) + 1

\* C14: make_graph declares its edges in row-major order of the thresholded
\* cells: the edge of cell (i, j) is the Rank-th declared edge, so it comes
\* before the edge of (i', j') whenever i < i', or i = i' and j < j'.
C14_RowMajorEdges ==
    Built =>
        /\ Len(DeclaredEdges(d)) = Cardinality(Passing(adjacency_matrix))
        /\ \A p \in Passing(adjacency_matrix) :
              LET e == DeclaredEdges(d)[Rank(adjacency_matrix, p)]
              IN  /\ e.name = DeclaredNodes(d)[p[2]]
                  /\ e.head = DeclaredNodes(d)[p[1]]

C14_Witness ==
    /\ Built /\ LabelsFit
    /\ labels.val = << <<"A">>, <<"B">> >>
    /\ Passing(adjacency_matrix) = { <<1, 2>>, <<2, 1>> }
    /\ DeclaredEdges(d)[1].name = <<"B">>
    /\ DeclaredEdges(d)[2].name = <<"A">>

\* the labels argument is absent or empty, so that the names are generated
LabelsDefaulted == ~labels.present \/ labels.val = <<>>

\* C16: in every graph make_graph returns for a square matrix of dimension N
\* with N labels, given or defaulted, both endpoints of every edge are names
\* of declared nodes.
C16_EndpointsDeclared ==
    (Built /\ Square(adjacency_matrix) /\ (LabelsFit \/ LabelsDefaulted)) =>
        \A k \in 1..Len(DeclaredEdges(d)) :
            /\ DeclaredEdges(d)[k].name \in Range(DeclaredNodes(d))
            /\ DeclaredEdges(d)[k].head \in Range(DeclaredNodes(d))

C16_Witness ==
    /\ Built /\ Square(adjacency_matrix) /\ LabelsDefaulted
    /\ Rows(adjacency_matrix) = 2
    /\ Len(DeclaredEdges(d)) = 2
    /\ \E k \in 1..2 : DeclaredEdges(d)[k].name = DeclaredEdges(d)[k].head

\* the text has neither a line break nor a tab
NoBreakNoTabIn(s) == \A k \in 1..Len(s) : s[k] \notin {"\n", "\t"}

\* t is s without a leading and a trailing run of whitespace, and neither
\* starts nor ends with whitespace
Trimmed(s, t) ==
    /\ \E a \in 0..Len(s) :
          /\ a + Len(t) <= Len(s)
          /\ \A k \in 1..Len(s) :
                IF k > a /\ k <= a + Len(t) THEN s[k] = t[k - a]
                ELSE s[k] \in Whitespace
    /\ t # <<>> => (t[1] \notin Whitespace /\ t[Len(t)] \notin Whitespace)

\* t with every line break turned into ';' and every tab left out
Rewritten(t) ==
    LET kept == SelectSeq(t, LAMBDA c : c # "\t")
    IN  [k \in 1..Len(kept) |-> IF kept[k] = "\n" THEN ";" ELSE kept[k]]

\* C15: for every input text, the result of str_to_dot holds no line break
\* and no tab: the text is trimmed of leading and trailing whitespace, every
\* line break of the trimmed text becomes one ';', every tab is removed, and
\* the slices taken afterwards only copy characters of that text.
C15_NoBreakNoTab ==
    pc = "done" =>
        /\ NoBreakNoTabIn(graph_dot)
        /\ Trimmed(string, Strip(string))
        /\ Normalize(string) = Rewritten(Strip(string))
        /\ graph_dot = Stripped(Rewritten(Strip(string)))

\* a text with a line break and a tab inside is rewritten, not only trimmed
C15_Witness ==
    /\ origin = "caller" /\ pc = "done"
    /\ string = <<"a", "\n", "\t", "a">>
    /\ graph_dot = <<"a", ";", "a", "a">>

Fns == [k \in 1..Len(calls) |-> calls[k].fn]

Running == origin = "workflow" /\ pc \in {"steps", "completed", "cancelled"}

\* C18 as stated: no step of the job 'verify' runs unless the event is an
\* issue comment, created or edited, whose body is exactly 'test advanced';
\* the comments the workflow posts start no run.
C18_ExactBody ==
    /\ Running =>
          /\ event.name = "issue_comment"
          /\ event.action \in {"created", "edited"}
          /\ event.body = TestAdvanced
    /\ event.sender = "workflow" => ~Running

\* C18, amended: no step of the job 'verify' runs unless the event is an
\* issue comment, created or edited, whose body is 'test advanced' in any
\* letter case (the == of the expression language ignores case); the
\* comments the workflow posts start no run.
C18_BodyUpToCase ==
    /\ Running =>
          /\ event.name = "issue_comment"
          /\ event.action \in {"created", "edited"}
          /\ Lower(event.body) = TestAdvanced
    /\ event.sender = "workflow" => ~Running

\* the job has run for a user's comment and is skipped for the comment that
\* reports its success
C18_Witness ==
    /\ origin = "workflow" /\ pc = "skipped"
    /\ event.sender = "workflow"
    /\ event.body = Succeeded
    /\ comments = <<Launching, Succeeded>>
    /\ Len(ran) = 9

\* the body was posted as a comment by the job
Posted(b) == \E k \in 1..Len(comments) : comments[k] = b

\* the 1-based place of the step called n in the list of steps
StepIndex(n) == CHOOSE k \in 1..Len(Steps) : Steps[k].name = n

\* the steps that ran did so in the listed order, and a step without
\* if: failure() ran only after every step before it had succeeded
InListedOrder ==
    /\ \A a, b \in 1..Len(ran) :
          a < b => StepIndex(ran[a].name) < StepIndex(ran[b].name)
    /\ \A k \in 1..Len(outcomes) :
          (outcomes[k] # "skipped" /\ Steps[k].cond = "success")
              => \A j \in 1..(k - 1) : outcomes[j] = "success"

\* each message is posted only in its case, and never both
MessagesInCase ==
    /\ Posted(Succeeded) =>
          \A j \in 1..(StepIndex("Message success") - 1) : outcomes[j] = "success"
    /\ Posted(Failed) =>
          \E j \in 1..(StepIndex("Message failure") - 1) : outcomes[j] = "failure"
    /\ ~(Posted(Succeeded) /\ Posted(Failed))

\* C19 as stated: in every run of a matrix job the steps run in the listed
\* order, 'Advanced tests succeeded!' is posted only if every earlier step
\* succeeded, 'Advanced tests failed!' only if an earlier step failed, and a
\* job that runs to completion posts exactly one of the two.
C19_ExactlyOneMessage ==
    (origin = "workflow") =>
        /\ InListedOrder
        /\ MessagesInCase
        /\ pc = "completed" => (Posted(Succeeded) \/ Posted(Failed))

\* C19, amended: the order and the case of each message as stated; a job that
\* runs to completion posts exactly one of the two unless the message step
\* that ran last failed itself, in which case it posts none.
C19_OneMessageUnlessStepFails ==
    (origin = "workflow") =>
        /\ InListedOrder
        /\ MessagesInCase
        /\ pc = "completed" =>
              \/ Posted(Succeeded) \/ Posted(Failed)
              \/ outcomes[StepIndex("Message failure")] = "failure"

\* the tests fail: the success message is skipped and the failure message is
\* the one posted
C19_Witness ==
    /\ origin = "workflow" /\ pc = "completed"
    /\ outcomes[StepIndex("Run Advanced Tests")] = "failure"
    /\ outcomes[StepIndex("Message success")] = "skipped"
    /\ outcomes[StepIndex("Message failure")] = "success"
    /\ comments = <<Launching, Failed>>
    /\ ran[8] = [name |-> "Run Advanced Tests", with |-> <<4, job.group>>]

====
